---- MODULE Spec2Model ----
(***************************************************************************)
(* The process lifecycle supervisor of src/server.js (class                *)
(* MinecraftCrossplayServer): the control routes POST /start, /stop and    *)
(* /command, startMinecraftServer with the four listeners it registers on  *)
(* the child (stdout data, stderr data, 'error', 'close'),                 *)
(* stopMinecraftServer with its escalation timer, the relaunch timer of    *)
(* the close listener, the memory sampler and GET /status (Spec); the      *)
(* SIGTERM and SIGINT handlers of start(port) (HostSpec); and the boot     *)
(* sequence of src/unnamed/part_001 (BootSpec).                            *)
(*                                                                         *)
(* Every listener, route and timer callback runs to completion on the one  *)
(* JavaScript thread, so each is one action.  Time is kept in              *)
(* milliseconds; a timer is its remaining delay, and time only advances    *)
(* while no pending timer is due.                                          *)
(***************************************************************************)
EXTENDS Integers, Sequences, FiniteSets, TLC

VARIABLES
    serverStatus,           \* this.serverStatus
    serverReady,            \* this.serverReady
    startTime,              \* this.startTime: "null" or "timestamp"
    restartAttempts,        \* this.restartAttempts
    minecraftProcess,       \* this.minecraftProcess: "null" or "child"
    child,                  \* the operating-system side of the child object
    memoryMonitorInterval,  \* this.memoryMonitorInterval: "null" or "interval"
    leakedIntervals,        \* whether a running setInterval timer had its handle overwritten
    escTimers,              \* pending setTimeout(..., 15000) of stopMinecraftServer
    relaunchTimers,         \* pending setTimeout(..., 30000) of the close listener
    last,                   \* the handler that ran last and what it sent out
    sinceCleanExit,         \* ms since the last exit with code 0, while no start request came
    consecCrashes,          \* nonzero exits since the last readiness or zero exit
    exhausted,              \* a crash came after MaxRestarts consecutive crashes, no start request since
    launchFailed,           \* 'error' was emitted, no start request and no launch since
    bootPending,            \* initializeServer has been called and has not returned
    downloads,              \* downloadRequiredFiles: "pending", "done" or "failed"
    initializationComplete, \* this.initializationComplete
    hostExitTimers,         \* pending setTimeout(() => process.exit(0), 5000) of the signal handlers
    halted                  \* the control process has exited

vars == <<serverStatus, serverReady, startTime, restartAttempts, minecraftProcess,
          child, memoryMonitorInterval, leakedIntervals, escTimers, relaunchTimers,
          last, sinceCleanExit, consecCrashes, exhausted, launchFailed,
          bootPending, downloads, initializationComplete, hostExitTimers, halted>>

\* The control process around the supervisor.
host == <<bootPending, downloads, initializationComplete, hostExitTimers, halted>>

supervisor == <<serverStatus, serverReady, startTime, restartAttempts, minecraftProcess,
                child, memoryMonitorInterval, leakedIntervals, escTimers, relaunchTimers>>

(***************************************************************************)
(* Program constants.                                                      *)
(***************************************************************************)
MaxRestarts == 2
BackoffMs == 30000
EscalationMs == 15000
MaxCommandLength == 100
HostExitMs == 5000

\* The files downloadRequiredFiles fetches.
RequiredFiles == 5

(***************************************************************************)
(* Bounds of the model.                                                    *)
(***************************************************************************)
MaxEscTimers == 2
MaxRelaunchTimers == 2
MaxHostSignals == 1

Min(a, b) == IF a < b THEN a ELSE b

\* Time advances on the grid both timer delays lie on.
RECURSIVE GCD(_, _)
GCD(a, b) == IF b = 0 THEN a ELSE GCD(b, a % b)
TimeStep == GCD(EscalationMs, BackoffMs)

\* An exit code as the close listener receives it: <<>> is null (the child was
\* ended by a signal), <<n>> is the number n.
NullCode == <<>>
ExitCode(n) == <<n>>
SpawnErrorCode == ExitCode(-2)

Statuses == {"offline", "starting", "online", "stopping"}

\* A chunk of child output is the set of the marker substrings it contains.
DoneMarker == "Done ("
HelpMarker == "For help, type \"help\""
GeyserMarker == "Geyser"
StartedMarker == "Started"
Messages == { {}, {DoneMarker}, {DoneMarker, HelpMarker},
              {GeyserMarker, StartedMarker},
              {DoneMarker, HelpMarker, GeyserMarker, StartedMarker} }
ErrorMessages == { {}, {"ERROR"}, {"FATAL"}, {"OutOfMemoryError"} }

Includes(message, marker) == marker \in message

\* failed: the binary could not be spawned; errored: 'error' was emitted;
\* signal: the strongest signal delivered; strayKill: a SIGKILL came from an
\* escalation timer armed while an earlier child was the supervised process.
NoChild == [failed |-> FALSE, errored |-> FALSE, signal |-> "none", strayKill |-> FALSE]

\* What a handler leaves in last: its name, the status it found, its reply,
\* what it wrote to the child, the signal it sent, the status report it
\* returned (<<>> when none), and step: how many handlers of the run
\* start, readiness line, status query, stop, exit with code 0, status query
\* have run, one after the other, since construction (-1 when the handlers so
\* far are not such a run); step 10 is a host signal that found a process
\* followed by nothing but the passage of time, and step 11 the exit of the
\* control process after that.
Quiet(op) == [op |-> op, pre |-> serverStatus, reply |-> "none", wrote |-> "", signal |-> "none",
              report |-> <<>>, step |-> -1]

Step(from) == IF last.step = from THEN from + 1 ELSE -1

\* The fields as the constructor leaves them.
Constructed ==
    /\ serverStatus = "offline"
    /\ serverReady = FALSE
    /\ startTime = "null"
    /\ restartAttempts = 0
    /\ minecraftProcess = "null"
    /\ child = NoChild
    /\ memoryMonitorInterval = "null"
    /\ leakedIntervals = FALSE
    /\ escTimers = <<>>
    /\ relaunchTimers = <<>>
    /\ last = [op |-> "init", pre |-> "offline", reply |-> "none", wrote |-> "", signal |-> "none",
               report |-> <<>>, step |-> 0]
    /\ sinceCleanExit = -1
    /\ consecCrashes = 0
    /\ exhausted = FALSE
    /\ launchFailed = FALSE
    /\ downloads = "pending"
    /\ initializationComplete = FALSE
    /\ hostExitTimers = <<>>
    /\ halted = FALSE

\* src/server.js has no boot sequence.
Init == Constructed /\ bootPending = FALSE

\* src/unnamed/part_001 in production: the constructor has called
\* initializeServer, which is still downloading.
BootInit == Constructed /\ bootPending = TRUE

(***************************************************************************)
(* Timers.  A pending timer is its remaining delay; timers of one list     *)
(* share one delay, so each list is ordered by deadline, head first.  An   *)
(* escalation timer also records whether the child that was the           *)
(* supervised process when it was armed still is (own): the callback reads *)
(* this.minecraftProcess when it fires, whatever child that is by then.    *)
(***************************************************************************)
Rems == { escTimers[i].rem : i \in 1..Len(escTimers) }
            \cup { relaunchTimers[i] : i \in 1..Len(relaunchTimers) }
            \cup { hostExitTimers[i] : i \in 1..Len(hostExitTimers) }

(***************************************************************************)
(* The memory sampler.                                                     *)
(***************************************************************************)
StartMemoryMonitoring ==
    /\ memoryMonitorInterval' = "interval"
    /\ leakedIntervals' = (leakedIntervals \/ memoryMonitorInterval = "interval")

StopMemoryMonitoring ==
    /\ memoryMonitorInterval' = "null"
    /\ UNCHANGED leakedIntervals

(***************************************************************************)
(* startMinecraftServer: the guard, the three assignments and the spawn.   *)
(* launchOk is whether the operating system could start the binary.        *)
(***************************************************************************)
\* spawn() reports a launch failure by emitting 'error' on the next tick of
\* the event loop, before any request, output or timer callback can run.
ErrorPending == minecraftProcess # "null" /\ child.failed /\ ~child.errored

StartMinecraftServer_NoStartTime(launchOk) ==
    IF minecraftProcess # "null"
    THEN UNCHANGED <<serverStatus, serverReady, startTime, minecraftProcess, child>>
    ELSE /\ serverStatus' = "starting"
         /\ serverReady' = FALSE
         /\ UNCHANGED startTime
         /\ minecraftProcess' = "child"
         /\ child' = [NoChild EXCEPT !.failed = ~launchOk]

StartMinecraftServer_NoGuard(launchOk) ==
    /\ serverStatus' = "starting"
    /\ serverReady' = FALSE
    /\ startTime' = "timestamp"
    /\ minecraftProcess' = "child"
    /\ child' = [NoChild EXCEPT !.failed = ~launchOk]

StartMinecraftServer(launchOk) ==
    IF minecraftProcess # "null"
    THEN UNCHANGED <<serverStatus, serverReady, startTime, minecraftProcess, child>>
    ELSE /\ serverStatus' = "starting"
         /\ serverReady' = FALSE
         /\ startTime' = "timestamp"
         /\ minecraftProcess' = "child"
         /\ child' = [NoChild EXCEPT !.failed = ~launchOk]

(***************************************************************************)
(* The stdout listener.  The readiness branch also arms a 1000 ms timer    *)
(* for displayConnectionInfo, which only logs and is left out.             *)
(***************************************************************************)
IsReadyMessage_AnyMarker(message) == message # {}

IsReadyMessage(message) == Includes(message, DoneMarker) /\ Includes(message, HelpMarker)

MarkOnline_KeepAttempts ==
    /\ serverStatus' = "online"
    /\ serverReady' = TRUE
    /\ UNCHANGED restartAttempts
    /\ StartMemoryMonitoring

MarkOnline ==
    /\ serverStatus' = "online"
    /\ serverReady' = TRUE
    /\ restartAttempts' = 0
    /\ StartMemoryMonitoring

OnStdoutData(message) ==
    /\ minecraftProcess # "null"
    /\ ~child.failed
    /\ IF IsReadyMessage(message)
       THEN /\ MarkOnline
            /\ consecCrashes' = 0
       ELSE UNCHANGED <<serverStatus, serverReady, restartAttempts,
                        memoryMonitorInterval, leakedIntervals, consecCrashes>>
    /\ last' = [Quiet("stdout") EXCEPT !.step = IF IsReadyMessage(message) THEN Step(1) ELSE -1]
    /\ UNCHANGED <<startTime, minecraftProcess, child, escTimers, relaunchTimers,
                   sinceCleanExit, exhausted, launchFailed, host>>

\* The stderr listener only logs.
OnStderrData(message) ==
    /\ minecraftProcess # "null"
    /\ ~child.failed
    /\ last' = Quiet("stderr")
    /\ UNCHANGED <<supervisor, sinceCleanExit, consecCrashes, exhausted, launchFailed, host>>

(***************************************************************************)
(* The 'error' listener: the child could not be spawned.  The child object *)
(* then emits 'error' and, after it, may emit 'close' with a negative      *)
(* code; the listener itself leaves this.minecraftProcess as it is.        *)
(***************************************************************************)
OnChildError ==
    /\ minecraftProcess # "null"
    /\ child.failed
    /\ ~child.errored
    /\ serverStatus' = "offline"
    /\ serverReady' = FALSE
    /\ startTime' = "null"
    /\ child' = [child EXCEPT !.errored = TRUE]
    /\ last' = Quiet("error")
    /\ launchFailed' = TRUE
    /\ UNCHANGED host
    /\ UNCHANGED <<restartAttempts, minecraftProcess, memoryMonitorInterval, leakedIntervals,
                   escTimers, relaunchTimers, sinceCleanExit, consecCrashes, exhausted>>

(***************************************************************************)
(* The 'close' listener.                                                   *)
(***************************************************************************)
\* The codes the child can end with.
ExitCodesOf(c) ==
    IF c.failed THEN {SpawnErrorCode}
    ELSE IF c.signal = "SIGKILL" THEN {NullCode}
    ELSE IF c.signal = "SIGTERM" THEN {NullCode, ExitCode(143)}
    ELSE {ExitCode(0), ExitCode(1), NullCode}

IsCrash_SignalIsClean(code) == code # ExitCode(0) /\ code # NullCode

IsCrash(code) == code # ExitCode(0)

MayRestart_OffByOne == restartAttempts <= MaxRestarts

MayRestart == restartAttempts < MaxRestarts

ClearOnClose_KeepReady ==
    /\ minecraftProcess' = "null"
    /\ serverStatus' = "offline"
    /\ UNCHANGED serverReady
    /\ startTime' = "null"

ClearOnClose_KeepStatus ==
    /\ minecraftProcess' = "null"
    /\ UNCHANGED serverStatus
    /\ serverReady' = FALSE
    /\ startTime' = "null"

ClearOnClose ==
    /\ minecraftProcess' = "null"
    /\ serverStatus' = "offline"
    /\ serverReady' = FALSE
    /\ startTime' = "null"

OnChildClose(code) ==
    /\ minecraftProcess # "null"
    /\ child.failed => child.errored
    /\ code \in ExitCodesOf(child)
    /\ ClearOnClose
    /\ child' = NoChild
    /\ StopMemoryMonitoring
    /\ IF IsCrash(code)
       THEN IF MayRestart
            THEN /\ restartAttempts' = restartAttempts + 1
                 /\ relaunchTimers' = Append(relaunchTimers, BackoffMs)
            ELSE UNCHANGED <<restartAttempts, relaunchTimers>>
       ELSE /\ restartAttempts' = 0
            /\ UNCHANGED relaunchTimers
    /\ last' = [Quiet("close") EXCEPT !.step = IF code = ExitCode(0) THEN Step(4) ELSE -1]
    /\ consecCrashes' = IF code # ExitCode(0) THEN Min(consecCrashes + 1, MaxRestarts + 1) ELSE 0
    /\ exhausted' = (exhausted \/ (code # ExitCode(0) /\ consecCrashes >= MaxRestarts))
    /\ sinceCleanExit' = IF code = ExitCode(0) THEN 0 ELSE sinceCleanExit
    /\ escTimers' = [i \in 1..Len(escTimers) |-> [escTimers[i] EXCEPT !.own = FALSE]]
    /\ UNCHANGED <<launchFailed, host>>

(***************************************************************************)
(* stopMinecraftServer.  writeOk is whether stdin.write('stop\n') returned *)
(* (it throws when the input channel cannot be written).                   *)
(***************************************************************************)
\* kill(signal) on the child object: a child that was never spawned receives
\* nothing, and SIGKILL is not undone by a later SIGTERM.  own is whether the
\* caller was armed for this child.
Kill_Ignored(c, signal, own) == c

Kill(c, signal, own) ==
    IF c.failed THEN c
    ELSE [c EXCEPT !.signal = IF c.signal = "SIGKILL" THEN "SIGKILL" ELSE signal,
                   !.strayKill = (c.strayKill \/ (signal = "SIGKILL" /\ ~own))]

StopCommand == "stop\n"

StopMinecraftServer_NoTimer(writeOk) ==
    IF minecraftProcess # "null"
    THEN /\ serverStatus' = "stopping"
         /\ StopMemoryMonitoring
         /\ child' = IF writeOk THEN child ELSE Kill(child, "SIGTERM", TRUE)
         /\ UNCHANGED escTimers
    ELSE UNCHANGED <<serverStatus, memoryMonitorInterval, leakedIntervals, child, escTimers>>

StopMinecraftServer_NoTerminate(writeOk) ==
    IF minecraftProcess # "null"
    THEN /\ serverStatus' = "stopping"
         /\ StopMemoryMonitoring
         /\ UNCHANGED child
         /\ escTimers' = Append(escTimers, [rem |-> EscalationMs, own |-> TRUE])
    ELSE UNCHANGED <<serverStatus, memoryMonitorInterval, leakedIntervals, child, escTimers>>

StopMinecraftServer(writeOk) ==
    IF minecraftProcess # "null"
    THEN /\ serverStatus' = "stopping"
         /\ StopMemoryMonitoring
         /\ child' = IF writeOk THEN child ELSE Kill(child, "SIGTERM", TRUE)
         /\ escTimers' = Append(escTimers, [rem |-> EscalationMs, own |-> TRUE])
    ELSE UNCHANGED <<serverStatus, memoryMonitorInterval, leakedIntervals, child, escTimers>>

\* What stopMinecraftServer sends out.
StopSent(writeOk) ==
    IF minecraftProcess = "null" THEN [wrote |-> "", signal |-> "none"]
    ELSE IF writeOk THEN [wrote |-> StopCommand, signal |-> "none"]
    ELSE [wrote |-> "", signal |-> "SIGTERM"]

(***************************************************************************)
(* The control routes.                                                     *)
(***************************************************************************)
StartRejected_OnlineOnly == serverStatus = "online"

StartRejected == serverStatus = "starting" \/ serverStatus = "online"

PostStart(launchOk) ==
    /\ ~ErrorPending
    /\ StartRejected \/ minecraftProcess # "null" \/ Len(relaunchTimers) < MaxRelaunchTimers
    /\ IF StartRejected
       THEN /\ last' = [Quiet("start") EXCEPT !.reply = "failure"]
            /\ UNCHANGED <<supervisor, sinceCleanExit, consecCrashes, exhausted, launchFailed, host>>
       ELSE /\ StartMinecraftServer(launchOk)
            /\ last' = [Quiet("start") EXCEPT !.reply = "success",
                                              !.step = IF launchOk THEN Step(0) ELSE -1]
            /\ sinceCleanExit' = -1
            /\ exhausted' = FALSE
            /\ launchFailed' = FALSE
            /\ UNCHANGED host
            /\ UNCHANGED <<restartAttempts, memoryMonitorInterval, leakedIntervals,
                           escTimers, relaunchTimers, consecCrashes>>

StopRejected_NoHandle == minecraftProcess = "null"

StopRejected_Never == FALSE

StopRejected == serverStatus = "offline"

PostStop(writeOk) ==
    /\ ~ErrorPending
    /\ StopRejected \/ minecraftProcess = "null" \/ Len(escTimers) < MaxEscTimers
    /\ IF StopRejected
       THEN /\ last' = [Quiet("stop") EXCEPT !.reply = "failure"]
            /\ UNCHANGED <<supervisor, sinceCleanExit, consecCrashes, exhausted, launchFailed, host>>
       ELSE /\ StopMinecraftServer(writeOk)
            /\ last' = [Quiet("stop") EXCEPT !.reply = "success",
                                             !.step = IF writeOk THEN Step(3) ELSE -1,
                                             !.wrote = StopSent(writeOk).wrote,
                                             !.signal = StopSent(writeOk).signal]
            /\ UNCHANGED <<serverReady, startTime, restartAttempts, minecraftProcess,
                           relaunchTimers, sinceCleanExit, consecCrashes, exhausted, launchFailed, host>>

\* A request body is a record that may lack the command field.
Bodies == { [other |-> ""], [command |-> ""], [command |-> "list"],
            [command |-> "aaaaaaaaaaaaaaaaaaaaaaaaaaaaaaaaaaaaaaaaaaaaaaaaaaaaaaaaaaaaaaaaaaaaaaaaaaaaaaaaaaaaaaaaaaaaaaaaaaa"],
            [command |-> "aaaaaaaaaaaaaaaaaaaaaaaaaaaaaaaaaaaaaaaaaaaaaaaaaaaaaaaaaaaaaaaaaaaaaaaaaaaaaaaaaaaaaaaaaaaaaaaaaaaa"] }

HasCommand(body) == "command" \in DOMAIN body /\ body.command # ""

CommandAccepted_NoLimit(command) ==
    /\ minecraftProcess # "null"
    /\ serverReady
    /\ command # ""

\* executeCommand's guard; the route has established that the command is truthy.
CommandAccepted(command) ==
    /\ minecraftProcess # "null"
    /\ serverReady
    /\ command # ""
    /\ Len(command) < MaxCommandLength

PostCommand(body, writeOk) ==
    /\ ~ErrorPending
    /\ IF serverStatus # "online" \/ ~HasCommand(body)
       THEN last' = [Quiet("command") EXCEPT !.reply = "failure"]
       ELSE last' = [Quiet("command") EXCEPT
                        !.reply = "success",
                        !.wrote = IF CommandAccepted(body.command) /\ writeOk
                                  THEN body.command \o "\n" ELSE ""]
    /\ UNCHANGED <<supervisor, sinceCleanExit, consecCrashes, exhausted, launchFailed, host>>

\* GET /status reads the fields.
StatusReport_RunningFromStatus ==
    [status |-> serverStatus,
     running |-> serverStatus # "offline",
     ready |-> serverReady,
     uptime |-> IF startTime # "null" THEN "elapsed" ELSE "zero"]

StatusReport ==
    [status |-> serverStatus,
     running |-> minecraftProcess # "null",
     ready |-> serverReady,
     uptime |-> IF startTime # "null" THEN "elapsed" ELSE "zero"]

GetStatus ==
    /\ ~ErrorPending
    /\ last' = [Quiet("status") EXCEPT
                    !.report = <<StatusReport>>,
                    !.step = IF last.step \in {2, 5} THEN last.step + 1 ELSE -1]
    /\ UNCHANGED <<supervisor, sinceCleanExit, consecCrashes, exhausted, launchFailed, host>>

(***************************************************************************)
(* The timer callbacks.                                                    *)
(***************************************************************************)
EscalationFire ==
    /\ ~ErrorPending
    /\ escTimers # <<>>
    /\ Head(escTimers).rem = 0
    /\ escTimers' = Tail(escTimers)
    /\ IF minecraftProcess # "null"
       THEN /\ child' = Kill(child, "SIGKILL", Head(escTimers).own)
            /\ last' = [Quiet("escalation") EXCEPT !.signal = "SIGKILL"]
       ELSE /\ UNCHANGED child
            /\ last' = Quiet("escalation")
    /\ UNCHANGED <<serverStatus, serverReady, startTime, restartAttempts, minecraftProcess,
                   memoryMonitorInterval, leakedIntervals, relaunchTimers,
                   sinceCleanExit, consecCrashes, exhausted, launchFailed, host>>

RelaunchFire_NoStart(launchOk) ==
    /\ ~ErrorPending
    /\ relaunchTimers # <<>>
    /\ Head(relaunchTimers) = 0
    /\ relaunchTimers' = Tail(relaunchTimers)
    /\ last' = Quiet("relaunch")
    /\ launchFailed' = (launchFailed /\ minecraftProcess # "null")
    /\ UNCHANGED host
    /\ UNCHANGED <<serverStatus, serverReady, startTime, minecraftProcess, child,
                   restartAttempts, memoryMonitorInterval, leakedIntervals, escTimers,
                   sinceCleanExit, consecCrashes, exhausted>>

RelaunchFire(launchOk) ==
    /\ ~ErrorPending
    /\ relaunchTimers # <<>>
    /\ Head(relaunchTimers) = 0
    /\ relaunchTimers' = Tail(relaunchTimers)
    /\ StartMinecraftServer(launchOk)
    /\ last' = Quiet("relaunch")
    /\ launchFailed' = (launchFailed /\ minecraftProcess # "null")
    /\ UNCHANGED host
    /\ UNCHANGED <<restartAttempts, memoryMonitorInterval, leakedIntervals, escTimers,
                   sinceCleanExit, consecCrashes, exhausted>>

(***************************************************************************)
(* The passage of time: to the next deadline, or by TimeStep.              *)
(***************************************************************************)
RECURSIVE MinOf(_)
MinOf(S) == IF S = {} THEN TimeStep
            ELSE LET x == CHOOSE y \in S : TRUE IN Min(x, MinOf(S \ {x}))

Elapse(clock, d, limit) ==
    IF clock = -1 \/ clock + d > limit THEN -1 ELSE clock + d

Tick ==
    /\ ~ErrorPending
    /\ \A r \in Rems : r > 0
    /\ Rems # {} \/ sinceCleanExit # -1
    /\ LET d == MinOf(Rems) IN
         /\ escTimers' = [i \in 1..Len(escTimers) |-> [escTimers[i] EXCEPT !.rem = @ - d]]
         /\ relaunchTimers' = [i \in 1..Len(relaunchTimers) |-> relaunchTimers[i] - d]
         /\ sinceCleanExit' = Elapse(sinceCleanExit, d, 2 * BackoffMs)
         /\ hostExitTimers' = [i \in 1..Len(hostExitTimers) |-> hostExitTimers[i] - d]
    /\ last' = [Quiet("tick") EXCEPT !.step = IF last.step = 10 THEN 10 ELSE -1]
    /\ UNCHANGED <<serverStatus, serverReady, startTime, restartAttempts, minecraftProcess,
                   child, memoryMonitorInterval, leakedIntervals, consecCrashes, exhausted,
                   launchFailed, bootPending, downloads, initializationComplete, halted>>

Next ==
    \/ \E launchOk \in BOOLEAN : PostStart(launchOk)
    \/ \E writeOk \in BOOLEAN : PostStop(writeOk)
    \/ \E body \in Bodies, writeOk \in BOOLEAN : PostCommand(body, writeOk)
    \/ GetStatus
    \/ \E message \in Messages : OnStdoutData(message)
    \/ \E message \in ErrorMessages : OnStderrData(message)
    \/ OnChildError
    \/ \E code \in {ExitCode(0), ExitCode(1), ExitCode(143), SpawnErrorCode, NullCode} :
           OnChildClose(code)
    \/ EscalationFire
    \/ \E launchOk \in BOOLEAN : RelaunchFire(launchOk)
    \/ Tick

Spec == Init /\ [][Next]_vars

(***************************************************************************)
(* The boot sequence of src/unnamed/part_001: initializeServer awaits the  *)
(* downloads, pauses, calls startMinecraftServer once and sets             *)
(* initializationComplete; a rejected download takes it to its catch       *)
(* clause, which sets initializationComplete and starts nothing.  The      *)
(* routes are served meanwhile.  The pause is not timed here.              *)
(***************************************************************************)
\* downloadRequiredFiles awaits its files one after the other and rethrows
\* the first rejection: failAt is the file whose download is rejected, 0
\* when none is.
AllDownloaded(failAt) == failAt = 0

DownloadRequiredFiles(failAt) ==
    /\ bootPending
    /\ downloads = "pending"
    /\ ~ErrorPending
    /\ IF AllDownloaded(failAt)
          THEN /\ downloads' = "done"
               /\ UNCHANGED <<bootPending, initializationComplete>>
          ELSE /\ downloads' = "failed"
               /\ bootPending' = FALSE
               /\ initializationComplete' = TRUE
    /\ last' = [Quiet("download") EXCEPT !.reply = IF failAt = 0 THEN "success" ELSE "failure"]
    /\ UNCHANGED <<supervisor, sinceCleanExit, consecCrashes, exhausted, launchFailed,
                   hostExitTimers, halted>>

InitializeServer_NoAwait(launchOk) ==
    /\ bootPending
    /\ ~ErrorPending
    /\ minecraftProcess # "null" \/ Len(relaunchTimers) < MaxRelaunchTimers
    /\ StartMinecraftServer(launchOk)
    /\ bootPending' = FALSE
    /\ initializationComplete' = TRUE
    /\ last' = Quiet("boot")
    /\ launchFailed' = (launchFailed /\ minecraftProcess # "null")
    /\ UNCHANGED <<restartAttempts, memoryMonitorInterval, leakedIntervals, escTimers,
                   relaunchTimers, sinceCleanExit, consecCrashes, exhausted,
                   downloads, hostExitTimers, halted>>

InitializeServer(launchOk) ==
    /\ bootPending
    /\ downloads = "done"
    /\ ~ErrorPending
    /\ minecraftProcess # "null" \/ Len(relaunchTimers) < MaxRelaunchTimers
    /\ StartMinecraftServer(launchOk)
    /\ bootPending' = FALSE
    /\ initializationComplete' = TRUE
    /\ last' = Quiet("boot")
    /\ launchFailed' = (launchFailed /\ minecraftProcess # "null")
    /\ UNCHANGED <<restartAttempts, memoryMonitorInterval, leakedIntervals, escTimers,
                   relaunchTimers, sinceCleanExit, consecCrashes, exhausted,
                   downloads, hostExitTimers, halted>>

BootNext ==
    \/ Next
    \/ \E failAt \in 0..RequiredFiles : DownloadRequiredFiles(failAt)
    \/ \E launchOk \in BOOLEAN : InitializeServer(launchOk)

BootSpec == BootInit /\ [][BootNext]_vars

(***************************************************************************)
(* The handlers start(port) registers for SIGTERM and SIGINT: they call    *)
(* stopMinecraftServer and arm the exit of the control process.  Once it   *)
(* has exited nothing of it runs any more.                                 *)
(***************************************************************************)
HostSignal_NoStop(writeOk) ==
    /\ ~halted
    /\ ~ErrorPending
    /\ Len(hostExitTimers) < MaxHostSignals
    /\ hostExitTimers' = Append(hostExitTimers, HostExitMs)
    /\ last' = [Quiet("signal") EXCEPT !.step = IF minecraftProcess # "null" THEN 10 ELSE -1]
    /\ UNCHANGED <<supervisor, sinceCleanExit, consecCrashes, exhausted,
                   launchFailed, bootPending, downloads, initializationComplete, halted>>

HostSignal(writeOk) ==
    /\ ~halted
    /\ ~ErrorPending
    /\ Len(hostExitTimers) < MaxHostSignals
    /\ minecraftProcess = "null" \/ Len(escTimers) < MaxEscTimers
    /\ StopMinecraftServer(writeOk)
    /\ hostExitTimers' = Append(hostExitTimers, HostExitMs)
    /\ last' = [Quiet("signal") EXCEPT !.wrote = StopSent(writeOk).wrote,
                                       !.signal = StopSent(writeOk).signal,
                                       !.step = IF minecraftProcess # "null" THEN 10 ELSE -1]
    /\ UNCHANGED <<serverReady, startTime, restartAttempts, minecraftProcess,
                   relaunchTimers, sinceCleanExit, consecCrashes, exhausted,
                   launchFailed, bootPending, downloads, initializationComplete, halted>>

HostExit_WaitsForChild ==
    /\ ~halted
    /\ minecraftProcess = "null"
    /\ hostExitTimers # <<>>
    /\ Head(hostExitTimers) = 0
    /\ hostExitTimers' = Tail(hostExitTimers)
    /\ halted' = TRUE
    /\ last' = [Quiet("exit") EXCEPT !.step = IF last.step = 10 THEN 11 ELSE -1]
    /\ UNCHANGED <<supervisor, sinceCleanExit, consecCrashes, exhausted, launchFailed,
                   bootPending, downloads, initializationComplete>>

HostExit ==
    /\ ~halted
    /\ hostExitTimers # <<>>
    /\ Head(hostExitTimers) = 0
    /\ hostExitTimers' = Tail(hostExitTimers)
    /\ halted' = TRUE
    /\ last' = [Quiet("exit") EXCEPT !.step = IF last.step = 10 THEN 11 ELSE -1]
    /\ UNCHANGED <<supervisor, sinceCleanExit, consecCrashes, exhausted, launchFailed,
                   bootPending, downloads, initializationComplete>>

HostNext ==
    \/ ~halted /\ Next
    \/ \E writeOk \in BOOLEAN : HostSignal(writeOk)
    \/ HostExit

HostSpec == Init /\ [][HostNext]_vars

(***************************************************************************)
(* The scheduling the event loop and the operating system provide: time    *)
(* passes, a due timer's callback runs, a failed spawn emits 'error' and   *)
(* then 'close', and a process sent SIGKILL exits.                         *)
(***************************************************************************)
RelaunchFires == \E launchOk \in BOOLEAN : RelaunchFire(launchOk)

KilledChildCloses == child.signal = "SIGKILL" /\ OnChildClose(NullCode)

FailedChildCloses == child.failed /\ OnChildClose(SpawnErrorCode)

FairSpec ==
    /\ Spec
    /\ WF_vars(Tick)
    /\ WF_vars(EscalationFire)
    /\ WF_vars(RelaunchFires)
    /\ WF_vars(OnChildError)
    /\ WF_vars(KilledChildCloses)
    /\ WF_vars(FailedChildCloses)

\* In the boot sequence every download settles, resolved or rejected, and
\* the continuation of initializeServer runs once the event loop is free.
DownloadsSettle == \E failAt \in 0..RequiredFiles : DownloadRequiredFiles(failAt)

BootStarts == \E launchOk \in BOOLEAN : InitializeServer(launchOk)

BootFairSpec ==
    /\ BootSpec
    /\ WF_vars(Tick)
    /\ WF_vars(EscalationFire)
    /\ WF_vars(RelaunchFires)
    /\ WF_vars(OnChildError)
    /\ WF_vars(FailedChildCloses)
    /\ SF_vars(DownloadsSettle)
    /\ SF_vars(BootStarts)

TypeOK ==
    /\ Len(hostExitTimers) <= MaxHostSignals
    /\ bootPending \in BOOLEAN
    /\ downloads \in {"pending", "done", "failed"}
    /\ initializationComplete \in BOOLEAN
    /\ halted \in BOOLEAN
    /\ launchFailed \in BOOLEAN
    /\ serverStatus \in Statuses
    /\ serverReady \in BOOLEAN
    /\ startTime \in {"null", "timestamp"}
    /\ restartAttempts \in 0..MaxRestarts
    /\ minecraftProcess \in {"null", "child"}
    /\ memoryMonitorInterval \in {"null", "interval"}
    /\ leakedIntervals \in BOOLEAN
    /\ Len(escTimers) <= MaxEscTimers
    /\ Len(relaunchTimers) <= MaxRelaunchTimers
    /\ sinceCleanExit \in -1..(2 * BackoffMs)
    /\ consecCrashes \in 0..(MaxRestarts + 1)

(***************************************************************************)
(* The claims.                                                             *)
(***************************************************************************)
Active == {"starting", "online", "stopping"}

HasReadinessMarker(message) == DoneMarker \in message /\ HelpMarker \in message

\* C1: in every reachable state a process handle exists exactly when
\* serverStatus is starting, online or stopping.
C1_HandleIffActive ==
    (minecraftProcess # "null") <=> (serverStatus \in Active)

\* C2: a forced kill (SIGKILL) of an escalation timer only ever reaches the
\* child that was the supervised process when that timer's stop() was called,
\* never a child launched afterwards.
C2_KillOnlyOwnProcess ==
    ~child.strayKill

\* C3: an exit with code 0 leaves serverStatus offline, and within
\* 2 x BackoffMs of it no relaunch timer launches a process unless a start
\* request was accepted in between.
C3_NoRelaunchAfterCleanExit ==
    [][ /\ OnChildClose(ExitCode(0)) => serverStatus' = "offline"
        /\ \A launchOk \in BOOLEAN :
              (RelaunchFire(launchOk) /\ minecraftProcess = "null" /\ minecraftProcess' # "null")
                  => sinceCleanExit = -1 ]_vars

\* C4: crash recovery belongs to exits observed while serverStatus is starting
\* or online: an exit observed while serverStatus is stopping neither raises
\* restartAttempts nor schedules a relaunch.
C4_NoRecoveryWhileStopping ==
    [][ serverStatus = "stopping"
            => /\ restartAttempts' <= restartAttempts
               /\ Len(relaunchTimers') <= Len(relaunchTimers) ]_vars

\* C5: the crash that follows MaxRestarts consecutive crashes schedules no
\* relaunch, and from then on serverStatus stays offline until a start request
\* is accepted.
C5_OfflineAfterMaxRestarts ==
    [][ /\ (minecraftProcess # "null" /\ minecraftProcess' = "null"
              /\ consecCrashes >= MaxRestarts /\ consecCrashes' > 0)
               => relaunchTimers' = relaunchTimers
        /\ exhausted' => serverStatus' = "offline" ]_vars

\* C6: serverStatus becomes online only from starting, and an output chunk
\* with the readiness marker that arrives in another status changes neither
\* serverStatus, serverReady, restartAttempts nor the sampler.
C6_ReadinessOnlyWhileStarting ==
    [][ /\ (serverStatus' = "online" /\ serverStatus # "online") => serverStatus = "starting"
        /\ \A message \in Messages :
              (HasReadinessMarker(message) /\ serverStatus # "starting" /\ OnStdoutData(message))
                  => UNCHANGED <<serverStatus, serverReady, restartAttempts,
                                 memoryMonitorInterval, leakedIntervals>> ]_vars

\* C7: an output chunk with both readiness markers that arrives while
\* serverStatus is starting makes serverStatus online, serverReady true and
\* restartAttempts 0.
C7_ReadyWhileStarting ==
    [][ \A message \in Messages :
           (HasReadinessMarker(message) /\ serverStatus = "starting" /\ OnStdoutData(message))
               => (serverStatus' = "online" /\ serverReady' = TRUE /\ restartAttempts' = 0) ]_vars

\* The readiness chunk arrived while starting, after an earlier crash had
\* raised restartAttempts (its relaunch timer is still pending).
C7_Witness ==
    /\ last.op = "stdout" /\ last.pre = "starting"
    /\ serverStatus = "online"
    /\ relaunchTimers # <<>>

\* C8: serverStatus online implies serverReady, and serverStatus offline
\* implies not serverReady.
C8_ReadyMatchesStatus ==
    /\ serverStatus = "online" => serverReady
    /\ serverStatus = "offline" => ~serverReady

\* The child of an online server has just exited.
C8_Witness ==
    /\ last.op = "close" /\ last.pre = "online"
    /\ serverStatus = "offline" /\ ~serverReady

\* C9: a start request issued while serverStatus is starting or online is
\* answered success:false, spawns nothing and leaves serverStatus, serverReady,
\* startTime, restartAttempts and the handle as they were.
C9_StartRejectedWhenRunning ==
    [][ \A launchOk \in BOOLEAN :
           (serverStatus \in {"starting", "online"} /\ PostStart(launchOk))
               => /\ last'.reply = "failure"
                  /\ UNCHANGED <<serverStatus, serverReady, startTime, restartAttempts,
                                 minecraftProcess, child>> ]_vars

C9_Witness ==
    /\ last.op = "start" /\ last.pre = "starting" /\ last.reply = "failure"
    /\ serverStatus = "starting" /\ minecraftProcess # "null"

\* C10: a stop request issued while serverStatus is offline is answered
\* success:false, writes nothing, sends no signal, arms no timer and leaves
\* the supervisor's state as it was.
C10_StopRejectedWhenOffline ==
    [][ \A writeOk \in BOOLEAN :
           (serverStatus = "offline" /\ PostStop(writeOk))
               => /\ last'.reply = "failure"
                  /\ last'.wrote = "" /\ last'.signal = "none"
                  /\ UNCHANGED supervisor ]_vars

\* The stop request came while the handle of a child that failed to spawn
\* was still set.
C10_Witness ==
    /\ last.op = "stop" /\ last.pre = "offline" /\ last.reply = "failure"
    /\ minecraftProcess # "null"

\* C11: a start request issued while serverStatus is offline and no process
\* exists creates one process, sets serverStatus to starting and serverReady to
\* false, records a start time and answers success in the same step.
C11_StartFromOffline ==
    [][ \A launchOk \in BOOLEAN :
           (serverStatus = "offline" /\ minecraftProcess = "null" /\ PostStart(launchOk))
               => /\ minecraftProcess' = "child"
                  /\ serverStatus' = "starting"
                  /\ serverReady' = FALSE
                  /\ startTime' # "null"
                  /\ last'.reply = "success" ]_vars

\* The start request has just launched a child from offline.
C11_Witness ==
    /\ last.op = "start" /\ last.pre = "offline" /\ last.reply = "success"
    /\ serverStatus = "starting" /\ minecraftProcess = "child" /\ startTime = "timestamp"

\* C12 as stated: a stop request issued while serverStatus is starting, online
\* or stopping answers success, sets serverStatus to stopping, writes 'stop'
\* plus newline to the process and arms the escalation timer.
C12_StopWritesStop ==
    [][ \A writeOk \in BOOLEAN :
           (serverStatus \in Active /\ PostStop(writeOk))
               => /\ last'.reply = "success"
                  /\ serverStatus' = "stopping"
                  /\ last'.wrote = "stop\n"
                  /\ Len(escTimers') = Len(escTimers) + 1 ]_vars

\* C12 as amended: the stop request answers success, sets serverStatus to
\* stopping, arms one escalation timer of EscalationMs, and either writes
\* 'stop' plus newline or, when that write throws, writes nothing and sends
\* SIGTERM.
C12_StopWritesOrTerminates ==
    [][ \A writeOk \in BOOLEAN :
           (serverStatus \in Active /\ PostStop(writeOk))
               => /\ last'.reply = "success"
                  /\ serverStatus' = "stopping"
                  /\ \/ last'.wrote = "stop\n" /\ last'.signal = "none"
                     \/ last'.wrote = "" /\ last'.signal = "SIGTERM"
                  /\ escTimers' = Append(escTimers, [rem |-> EscalationMs, own |-> TRUE]) ]_vars

\* A stop request has just been accepted from online and wrote the command.
C12_Witness ==
    /\ last.op = "stop" /\ last.pre = "online" /\ last.reply = "success"
    /\ last.wrote = "stop\n"
    /\ serverStatus = "stopping" /\ escTimers # <<>>

\* C13: when a stop request was accepted at time t and the process has not
\* exited by t + 15000 ms, SIGKILL is sent to that process at t + 15000 ms,
\* and no SIGKILL reaches the process while less than 15000 ms have passed
\* since an accepted stop request for it.
C13_KillAtDeadlineNotEarlier ==
    [][ /\ (EscalationFire /\ Head(escTimers).own /\ minecraftProcess # "null")
              => last'.signal = "SIGKILL"
        /\ (EscalationFire /\ last'.signal = "SIGKILL")
              => \A i \in 1..Len(escTimers) :
                    escTimers[i].own => escTimers[i].rem = 0 ]_vars

\* C14: whenever a stop request has been accepted, the process is eventually
\* gone (minecraftProcess null and serverStatus offline), given that timers
\* fire and a process sent SIGKILL exits.
C14_StopEventuallyGone ==
    (last.op = "stop" /\ last.reply = "success")
        ~> (minecraftProcess = "null" /\ serverStatus = "offline")

\* The process has been sent SIGKILL by the escalation timer while stopping.
C14_Witness ==
    /\ last.op = "escalation" /\ last.pre = "stopping" /\ last.signal = "SIGKILL"
    /\ child.signal = "SIGKILL" /\ minecraftProcess # "null"

\* C15: an exit with a nonzero code while restartAttempts < 2 raises
\* restartAttempts by exactly one and arms a relaunch 30000 ms ahead; the
\* relaunch runs no earlier than that and, when no process has been launched
\* in between, sets serverStatus to starting with a new process.
C15_CrashSchedulesRelaunch ==
    [][ /\ \A code \in {ExitCode(1), ExitCode(143), ExitCode(-2), NullCode} :
              (restartAttempts < 2 /\ OnChildClose(code))
                  => /\ restartAttempts' = restartAttempts + 1
                     /\ relaunchTimers' = Append(relaunchTimers, 30000)
        /\ \A launchOk \in BOOLEAN :
              RelaunchFire(launchOk)
                  => /\ Head(relaunchTimers) = 0
                     /\ minecraftProcess = "null"
                           => (serverStatus' = "starting" /\ minecraftProcess' = "child")
        /\ (last'.op = "tick" /\ relaunchTimers # <<>>)
              => /\ Len(relaunchTimers') = Len(relaunchTimers)
                 /\ \A i \in 1..Len(relaunchTimers) :
                       /\ relaunchTimers'[i] >= 0
                       /\ relaunchTimers[i] - relaunchTimers'[i]
                             = relaunchTimers[1] - relaunchTimers'[1] ]_vars

\* The backoff timer of a crash has just launched a new process.
C15_Witness ==
    /\ last.op = "relaunch" /\ last.pre = "offline"
    /\ serverStatus = "starting" /\ minecraftProcess = "child"
    /\ restartAttempts > 0

\* C16: restartAttempts stays within 0..2, and between two resets of it at
\* most 2 relaunches are scheduled: every scheduled relaunch raises
\* restartAttempts by one from below 2, and restartAttempts only falls to 0.
C16_RestartAttemptsBounded ==
    [][ /\ restartAttempts \in 0..2 /\ restartAttempts' \in 0..2
        /\ Len(relaunchTimers') > Len(relaunchTimers)
              => /\ Len(relaunchTimers') = Len(relaunchTimers) + 1
                 /\ restartAttempts < 2
                 /\ restartAttempts' = restartAttempts + 1
        /\ restartAttempts' < restartAttempts => restartAttempts' = 0 ]_vars

\* A crash at the bound has just been observed and scheduled nothing.
C16_Witness ==
    /\ last.op = "close" /\ restartAttempts = 2 /\ exhausted
    /\ serverStatus = "offline"

\* C17: whenever the process is observed to exit, whatever the code and the
\* state, the handle is discarded, serverStatus is offline, serverReady is
\* false and no resource sampler interval is left running; when the code is 0
\* restartAttempts is reset to 0.
C17_ExitClearsEverything ==
    [][ \A code \in {ExitCode(0), ExitCode(1), ExitCode(143), ExitCode(-2), NullCode} :
           OnChildClose(code)
               => /\ minecraftProcess' = "null"
                  /\ serverStatus' = "offline"
                  /\ serverReady' = FALSE
                  /\ memoryMonitorInterval' = "null" /\ ~leakedIntervals'
                  /\ code = ExitCode(0) => restartAttempts' = 0 ]_vars

\* The text of a request body's command, empty when the field is missing.
TextOf(body) == IF "command" \in DOMAIN body THEN body.command ELSE ""

\* The conditions under which a command is to be forwarded.
Forwardable(body) ==
    /\ serverStatus = "online"
    /\ minecraftProcess # "null"
    /\ TextOf(body) # ""
    /\ Len(TextOf(body)) < 100

\* C18 as stated: a command request writes the command text followed by a
\* newline to the process if and only if serverStatus is online, a process
\* exists and the text is non-empty and shorter than 100 characters; otherwise
\* nothing is written, and the state is unchanged.
C18_CommandWrittenIff ==
    [][ \A body \in Bodies, writeOk \in BOOLEAN :
           PostCommand(body, writeOk)
               => /\ IF Forwardable(body)
                     THEN last'.wrote = TextOf(body) \o "\n"
                     ELSE last'.wrote = ""
                  /\ UNCHANGED supervisor ]_vars

\* C18 as amended: the command text followed by a newline is written only
\* under those conditions, and under them it is written unless the write itself
\* throws; in every other case nothing is written, and the state is unchanged.
C18_CommandWrittenUnlessWriteFails ==
    [][ \A body \in Bodies, writeOk \in BOOLEAN :
           PostCommand(body, writeOk)
               => /\ IF Forwardable(body) /\ writeOk
                     THEN last'.wrote = TextOf(body) \o "\n"
                     ELSE last'.wrote = ""
                  /\ UNCHANGED supervisor ]_vars

\* A command has just been forwarded to the online server.
C18_Witness ==
    /\ last.op = "command" /\ last.pre = "online" /\ last.wrote = "list\n"
    /\ serverStatus = "online" /\ minecraftProcess # "null"

\* C19: every precondition violation is answered as a non-success: a command
\* request whose command is missing or has length >= 100, a start request
\* while the server is starting or online, and a stop request while it is
\* offline all answer success:false.
C19_ViolationsAnswerFailure ==
    [][ /\ \A body \in Bodies, writeOk \in BOOLEAN :
              (PostCommand(body, writeOk) /\ (TextOf(body) = "" \/ Len(TextOf(body)) >= 100))
                  => last'.reply = "failure"
        /\ \A launchOk \in BOOLEAN :
              (PostStart(launchOk) /\ serverStatus \in {"starting", "online"})
                  => last'.reply = "failure"
        /\ \A writeOk \in BOOLEAN :
              (PostStop(writeOk) /\ serverStatus = "offline")
                  => last'.reply = "failure" ]_vars

\* C20: when the launch fails (the child emits 'error'), serverStatus returns
\* to offline with serverReady false, and no process is launched afterwards
\* unless a start request is issued again.
C20_LaunchFailureNeedsManualStart ==
    [][ /\ OnChildError => (serverStatus' = "offline" /\ serverReady' = FALSE)
        /\ (last'.op = "relaunch" /\ minecraftProcess = "null" /\ minecraftProcess' # "null")
              => ~launchFailed ]_vars

\* C21: in every reachable state where serverStatus is offline a start request
\* is accepted and launches a process, moving serverStatus to starting.
C21_StartFromOfflineAlwaysLaunches ==
    (last.op = "start" /\ last.pre = "offline")
        => /\ last.reply = "success"
           /\ serverStatus = "starting"
           /\ minecraftProcess # "null"

\* C22: an active sampling interval implies serverStatus is online, and no
\* sampling interval is left after an accepted stop request or a process exit.
C22_SamplerOnlyWhileOnline ==
    /\ (memoryMonitorInterval # "null" \/ leakedIntervals) => serverStatus = "online"
    /\ (last.op = "stop" /\ last.reply = "success")
          => (memoryMonitorInterval = "null" /\ ~leakedIntervals)
    /\ last.op = "close" => (memoryMonitorInterval = "null" /\ ~leakedIntervals)

\* C23: at most one supervised process exists at any time: a start request, a
\* relaunch timer or the boot sequence that runs while a process has not yet
\* been observed to exit launches nothing and leaves that process as it is.
C23_AtMostOneProcess ==
    [][ (minecraftProcess # "null" /\ last'.op \in {"start", "relaunch", "boot"})
            => UNCHANGED <<minecraftProcess, child, serverStatus, startTime>> ]_vars

\* The boot sequence has just called startMinecraftServer while a process
\* launched by a start request was running.
C23_Witness ==
    /\ last.op = "boot" /\ last.pre \in {"starting", "online", "stopping"}
    /\ minecraftProcess # "null" /\ ~bootPending

\* C24: an output line that matches only the bridge-started marker, and any
\* error-stream line with a failure keyword, leaves serverStatus, serverReady,
\* restartAttempts, startTime and the process handle unchanged.
C24_LogLinesChangeNothing ==
    [][ /\ \A message \in Messages :
              (/\ "Geyser" \in message /\ "Started" \in message
               /\ ~HasReadinessMarker(message)
               /\ OnStdoutData(message))
                  => UNCHANGED <<serverStatus, serverReady, restartAttempts, startTime,
                                 minecraftProcess>>
        /\ \A message \in ErrorMessages :
              (message # {} /\ OnStderrData(message))
                  => UNCHANGED <<serverStatus, serverReady, restartAttempts, startTime,
                                 minecraftProcess>> ]_vars

\* The stderr listener has just run on a starting server that has crashed
\* before, and the server is still starting.
C24_Witness ==
    /\ last.op = "stderr" /\ last.pre = "starting"
    /\ serverStatus = "starting" /\ restartAttempts > 0 /\ minecraftProcess # "null"

\* C25: restartAttempts falls only to 0 and only by a readiness line that puts
\* the server online or by an exit with code 0; a start request, also one
\* after the maximum number of restarts, leaves restartAttempts unchanged.
C25_AttemptsResetOnlyByOnlineOrCleanExit ==
    [][ /\ restartAttempts' < restartAttempts
              => /\ restartAttempts' = 0
                 /\ \/ last'.op = "stdout" /\ serverStatus' = "online"
                    \/ OnChildClose(ExitCode(0))
        /\ \A launchOk \in BOOLEAN :
              PostStart(launchOk) => restartAttempts' = restartAttempts ]_vars

\* A start request has just launched a process after the maximum number of
\* restarts was used up, and restartAttempts is still at the maximum.
C25_Witness ==
    /\ last.op = "start" /\ last.pre = "offline" /\ last.reply = "success"
    /\ serverStatus = "starting" /\ restartAttempts = 2

\* C26: when writing the stop command fails during an accepted stop request,
\* SIGTERM is sent to the process at once, the escalation timer is armed all
\* the same, serverStatus is stopping and the request still answers success.
C26_WriteFailureTerminates ==
    (last.op = "stop" /\ last.pre # "offline" /\ last.wrote = "")
        => /\ last.reply = "success"
           /\ last.signal = "SIGTERM"
           /\ child.signal \in {"SIGTERM", "SIGKILL"}
           /\ serverStatus = "stopping"
           /\ escTimers # <<>>
           /\ escTimers[Len(escTimers)] = [rem |-> 15000, own |-> TRUE]

\* A stop request on an online server has just failed to write and sent
\* SIGTERM.
C26_Witness ==
    /\ last.op = "stop" /\ last.pre = "online" /\ last.wrote = ""
    /\ last.signal = "SIGTERM" /\ child.signal = "SIGTERM"
    /\ serverStatus = "stopping"

\* C27: a host termination signal first runs the shutdown protocol on the
\* supervised process (stopping, stop command or SIGTERM, escalation timer)
\* and arms the exit of the control process 5000 ms ahead; once those 5000 ms
\* have passed the control process can exit whatever the state of the
\* supervised process, and time does not pass before it does.
C27_HostSignalStopsThenExits ==
    /\ last.op = "signal"
          => /\ hostExitTimers # <<>>
             /\ hostExitTimers[Len(hostExitTimers)] = 5000
             /\ minecraftProcess # "null"
                   => /\ serverStatus = "stopping"
                      /\ last.wrote = "stop\n" \/ last.signal = "SIGTERM"
                      /\ escTimers # <<>>
                      /\ escTimers[Len(escTimers)].rem = 15000
    /\ (~halted /\ hostExitTimers # <<>> /\ Head(hostExitTimers) = 0)
          => (ENABLED HostExit /\ ~ENABLED Tick)
    /\ \A i \in 1..Len(hostExitTimers) : hostExitTimers[i] \in 0..5000
    /\ last.op = "exit" => halted

\* The control process has exited while the supervised process was still
\* there, stopping.
C27_Witness ==
    /\ last.op = "exit" /\ halted
    /\ minecraftProcess # "null" /\ serverStatus = "stopping"

\* C28: from the initial state, a start request and then a readiness line
\* give a status report with status online and ready true; a following stop
\* request and then an exit with code 0 give a status report with status
\* offline, running false and ready false, and no relaunch is pending.
C28_EndToEndRun ==
    /\ last.step = 3
          => /\ Len(last.report) = 1
             /\ last.report[1].status = "online"
             /\ last.report[1].ready = TRUE
    /\ last.step = 6
          => /\ Len(last.report) = 1
             /\ last.report[1].status = "offline"
             /\ last.report[1].running = FALSE
             /\ last.report[1].ready = FALSE
    /\ last.step \in {5, 6}
          => /\ relaunchTimers = <<>>
             /\ minecraftProcess = "null"
             /\ serverStatus = "offline"

\* The whole run has taken place, up to its second status report.
C28_Witness ==
    /\ last.step = 6 /\ last.op = "status"
    /\ serverStatus = "offline" /\ minecraftProcess = "null"

\* C29: the status query changes none of serverStatus, serverReady,
\* startTime, restartAttempts, the process handle or any timer, and reports
\* running as whether the handle is set, ready as serverReady and status as
\* serverStatus.
C29_StatusIsPureRead ==
    [][ GetStatus
           => /\ UNCHANGED <<serverStatus, serverReady, startTime, restartAttempts,
                             minecraftProcess, child, memoryMonitorInterval,
                             escTimers, relaunchTimers, hostExitTimers>>
              /\ Len(last'.report) = 1
              /\ last'.report[1].running = (minecraftProcess # "null")
              /\ last'.report[1].ready = serverReady
              /\ last'.report[1].status = serverStatus ]_vars

\* A status query has just reported an offline server whose handle is still
\* set as running.
C29_Witness ==
    /\ last.op = "status" /\ Len(last.report) = 1
    /\ last.report[1].status = "offline" /\ last.report[1].running = TRUE
    /\ minecraftProcess # "null"

\* C30: a start request answers success only when that call launches a new
\* process; the case the claim names: a start request issued while
\* serverStatus is stopping, which launches nothing, does not answer success.
C30_NoSuccessWhileStopping ==
    (last.op = "start" /\ last.pre = "stopping") => last.reply # "success"

\* C31: an automatic relaunch starts a process no sooner than 30000 ms after
\* the most recent crash, so no backoff timer of a later crash is still
\* running when it does, and never after the server was started and exited
\* with code 0 in the meantime.
C31_RelaunchOnlyAfterLatestBackoff ==
    (last.op = "relaunch" /\ last.pre = "offline" /\ serverStatus = "starting")
        => /\ \A i \in 1..Len(relaunchTimers) : relaunchTimers[i] = 0
           /\ sinceCleanExit = -1

\* C32: a stop request issued during the backoff window (serverStatus
\* offline, a relaunch timer pending) answers success:false and leaves the
\* pending relaunch timers as they are, and a relaunch timer that fires while
\* no process exists launches one.
C32_StopCannotCancelRelaunch ==
    [][ /\ \A writeOk \in BOOLEAN :
              (serverStatus = "offline" /\ relaunchTimers # <<>> /\ PostStop(writeOk))
                  => /\ last'.reply = "failure"
                     /\ relaunchTimers' = relaunchTimers
                     /\ restartAttempts' = restartAttempts
        /\ (last.op = "stop" /\ last.reply = "failure" /\ minecraftProcess = "null"
              /\ last'.op = "relaunch")
                  => (minecraftProcess' # "null" /\ serverStatus' = "starting") ]_vars

\* A stop request has just been refused in the backoff window, with the
\* relaunch timer due and no process to stop.
C32_Witness ==
    /\ last.op = "stop" /\ last.pre = "offline" /\ last.reply = "failure"
    /\ relaunchTimers # <<>> /\ Head(relaunchTimers) = 0
    /\ minecraftProcess = "null" /\ restartAttempts > 0

\* C33: at most one sampling interval is active at any time, so that
\* stopMemoryMonitoring can clear every active interval: no interval is left
\* running with its handle overwritten.
C33_AtMostOneInterval ==
    ~leakedIntervals

\* C34: at most one escalation timer is pending at any time.
C34_AtMostOneEscalationTimer ==
    Len(escTimers) <= 1

\* C35 as stated: after a host termination signal the supervised process has
\* exited by the time the control process exits, also when the child ignores
\* the graceful stop command and nothing else happens.
C35_ChildGoneAtHostExit ==
    last.step = 11 => minecraftProcess = "null"

\* C35 as amended: the control process exits at its 5000 ms ceiling whether
\* or not the supervised process has exited; for a child that ignores the
\* stop command the process is still there at that moment, and the forced
\* kill armed by the signal's shutdown protocol is only due 10000 ms later,
\* or more when the exit was armed by an earlier signal.
C35_HostExitBeforeForcedKill ==
    last.step = 11
        => /\ halted
           /\ minecraftProcess # "null"
           /\ \E i \in 1..Len(escTimers) :
                  escTimers[i].own /\ escTimers[i].rem >= EscalationMs - HostExitMs

\* The control process has exited 5000 ms after a signal that found a running
\* server, with nothing else having happened in between.
C35_Witness ==
    /\ last.step = 11 /\ last.op = "exit" /\ halted
    /\ serverStatus = "stopping" /\ minecraftProcess # "null"

\* C36: in the production boot sequence the automatic start is attempted only
\* after all required downloads completed successfully, a download failure
\* leads to no start attempt, initializationComplete eventually becomes true
\* on both paths, and the boot-time start made while a process exists launches
\* nothing and leaves that process as it is.
C36_BootStartsOnlyAfterDownloads ==
    /\ [](/\ last.op = "boot"
              => (downloads = "done" /\ initializationComplete /\ ~bootPending)
          /\ downloads = "failed"
              => (initializationComplete /\ ~bootPending /\ last.op # "boot")
          /\ (last.op = "download" /\ last.reply = "failure")
              => (downloads = "failed" /\ serverStatus = last.pre)
          /\ (last.op = "boot" /\ last.pre \in Active)
              => (serverStatus = last.pre /\ minecraftProcess # "null")
          /\ initializationComplete => ~bootPending)
    /\ <>initializationComplete

\* The boot sequence has started the server after its downloads, from the
\* state the constructor left.
C36_Witness ==
    /\ last.op = "boot" /\ last.pre = "offline" /\ downloads = "done"
    /\ initializationComplete /\ serverStatus = "starting" /\ minecraftProcess # "null"

\* C37: in every reachable state startTime is null whenever serverStatus is
\* offline, so that the status query reports uptime 0 for an offline server,
\* and startTime is non-null whenever serverStatus is starting, online or
\* stopping.
C37_StartTimeFollowsStatus ==
    /\ serverStatus = "offline" => startTime = "null"
    /\ serverStatus \in Active => startTime # "null"
    /\ (last.op = "status" /\ last.pre = "offline") => last.report[1].uptime = "zero"

====
